---------------------------- MODULE Spec2Model ----------------------------
(***************************************************************************)
(* A model of ml/binary_classification/decision_tree.py: the experiment    *)
(* runner run_decision_tree, one call of decision_tree_experiment, and the *)
(* helper functions compute_and_save_metrics, save_confusion_matrix and    *)
(* calculate_and_save_feature_importances.                                 *)
(*                                                                         *)
(* Five specifications share the module:                                   *)
(*   Spec            run_decision_tree: load, the four dataset creators,   *)
(*                   the four experiments, uncaught failures and reruns.   *)
(*                   A file is kept as the run that wrote it and whether   *)
(*                   the write completed.                                  *)
(*   SpecExperiment  one call of decision_tree_experiment, with the        *)
(*                   contents of the five files it writes.                 *)
(*   SpecTwice       the call made twice on the same inputs.               *)
(*   SpecMetrics     compute_and_save_metrics and save_confusion_matrix    *)
(*                   applied to every pair of binary label vectors.        *)
(*   SpecImportances calculate_and_save_feature_importances applied to     *)
(*                   every importance vector.                              *)
(*                                                                         *)
(* Floats are exact rationals <<numerator, denominator>> in lowest terms;  *)
(* the float nan is NaN, written 0/0.                                      *)
(***************************************************************************)
EXTENDS Integers, Sequences, FiniteSets, TLC

VARIABLES
    (* run_decision_tree *)
    pc,          \* where the run stands
    exp,         \* the experiment being run (0 before the first)
    run,         \* how many times the script has been started
    nTrials,     \* trials of the current study.optimize done so far
    df,          \* the table load_data returned
    datasets,    \* the splits the dataset creators returned
    files,       \* the files under results/ and models/: path -> [run, complete]
    written,     \* the paths this run has written, in order
    failed,      \* the experiments of this run in which an exception was raised
    (* decision_tree_experiment and the helper functions *)
    epc,         \* where the call stands
    call,        \* how many times the function has been called
    inp,         \* the arguments of the call
    study,       \* the optuna study
    best_params, \* study.best_params
    model,       \* the pipeline built from best_params
    pred,        \* y_pred, the labels model.predict(X_test) returned
    saved,       \* what the call has written: path -> contents
    prev         \* the contents the previous call left

vars == <<pc, exp, run, nTrials, df, datasets, files, written, failed,
          epc, call, inp, study, best_params, model, pred, saved, prev>>

runVars == <<pc, exp, run, nTrials, df, datasets, files, written, failed>>
expVars == <<epc, call, inp, study, best_params, model, pred, saved, prev>>

-----------------------------------------------------------------------------
(* Bounds of the model *)

MaxLen == 3          \* longest label vector of SpecMetrics
MaxFeatures == 3     \* most feature columns of SpecImportances
MaxImportance == 2   \* importances are multiples of 1/MaxImportance
MaxScore == 1        \* scores are multiples of 1/MaxScore
MaxRuns == 2         \* times run_decision_tree is started
MaxTest == 1         \* longest test split of SpecExperiment

-----------------------------------------------------------------------------
(* Values *)

None == "None"
NaN == <<0, 0>>
Labels == {0, 1}

BinaryVectors(n) == [1..n -> Labels]

RECURSIVE GCD(_, _)
GCD(a, b) == IF b = 0 THEN a ELSE GCD(b, a % b)

\* The float n/d (d > 0, n >= 0 or n < 0), in lowest terms.
Frac(n, d) ==
    LET m == IF n < 0 THEN -n ELSE n
        g == GCD(m, d)
    IN  <<n \div g, d \div g>>

One == <<1, 1>>
Zero == <<0, 1>>

\* a < b and a <= b for two floats that are not nan.
LtFrac(a, b) == a[1] * b[2] < b[1] * a[2]
LeqFrac(a, b) == a[1] * b[2] <= b[1] * a[2]


AddFrac(a, b) == Frac(a[1] * b[2] + b[1] * a[2], a[2] * b[2])

RECURSIVE SumOver(_, _)
\* The sum of f[x] over the finite set S, for an integer-valued f.
SumOver(f, S) ==
    IF S = {} THEN 0
    ELSE LET x == CHOOSE x \in S : TRUE IN f[x] + SumOver(f, S \ {x})

RECURSIVE SumFracs(_, _)
SumFracs(f, S) ==
    IF S = {} THEN Zero
    ELSE LET x == CHOOSE x \in S : TRUE IN AddFrac(f[x], SumFracs(f, S \ {x}))

\* The members of a finite set of integers, in increasing order.
Sorted(S) ==
    CHOOSE s \in [1..Cardinality(S) -> S] :
        /\ {s[k] : k \in DOMAIN s} = S
        /\ \A j, k \in DOMAIN s : j < k => s[j] < s[k]

-----------------------------------------------------------------------------
(* sklearn.metrics, as compute_and_save_metrics and save_confusion_matrix  *)
(* call it: labels, pos_label, average and zero_division at their defaults *)

\* How many samples have true label a and predicted label b.
Count(y_true, y_pred, a, b) ==
    Cardinality({k \in DOMAIN y_true : y_true[k] = a /\ y_pred[k] = b})

\* labels=None: the labels that occur in y_true or y_pred, sorted.
unique_labels(y_true, y_pred) ==
    Sorted({y_true[k] : k \in DOMAIN y_true} \cup {y_pred[k] : k \in DOMAIN y_pred})

\* confusion_matrix(y_true, y_pred): one row and one column per label that
\* occurs, C[i][j] the samples of true label i predicted as label j.
confusion_matrix(y_true, y_pred) ==
    LET labels == unique_labels(y_true, y_pred)
    IN  [i \in DOMAIN labels |->
            [j \in DOMAIN labels |-> Count(y_true, y_pred, labels[i], labels[j])]]

\* The counts of the positive class (pos_label=1).
TP(y_true, y_pred) == Count(y_true, y_pred, 1, 1)
FP(y_true, y_pred) == Count(y_true, y_pred, 0, 1)
FN(y_true, y_pred) == Count(y_true, y_pred, 1, 0)

\* zero_division="warn": a ratio with a zero denominator is 0.0.
prf_divide(n, d) == IF d = 0 THEN Zero ELSE Frac(n, d)

precision_score_samples(y_true, y_pred) ==
    prf_divide(TP(y_true, y_pred), Len(y_true))

precision_score(y_true, y_pred) ==
    prf_divide(TP(y_true, y_pred), TP(y_true, y_pred) + FP(y_true, y_pred))

recall_score(y_true, y_pred) ==
    prf_divide(TP(y_true, y_pred), TP(y_true, y_pred) + FN(y_true, y_pred))

fbeta_score(y_true, y_pred, beta) ==
    LET b2 == beta * beta
        tp == TP(y_true, y_pred)
    IN  prf_divide((1 + b2) * tp,
                   (1 + b2) * tp + b2 * FN(y_true, y_pred) + FP(y_true, y_pred))

\* 1 - sum(w * confusion) / sum(w * expected), w zero on the diagonal and one
\* off it, expected = outer(column sums, row sums) / n.  With a single label
\* both sums are 0 and the quotient is nan.
cohen_kappa_score(y_true, y_pred) ==
    LET C == confusion_matrix(y_true, y_pred)
        K == DOMAIN C
        n == Len(y_true)
        sum0 == [j \in K |-> SumOver([i \in K |-> C[i][j]], K)]
        sum1 == [i \in K |-> SumOver([j \in K |-> C[i][j]], K)]
        off == [i \in K |-> SumOver([j \in K |-> IF i = j THEN 0 ELSE C[i][j]], K)]
        exo == [i \in K |-> SumOver([j \in K |-> IF i = j THEN 0 ELSE sum0[i] * sum1[j]], K)]
        num == SumOver(off, K)
        den == SumOver(exo, K)
    IN  IF den = 0 THEN NaN ELSE Frac(den - n * num, den)

\* The mean of the recalls of the classes that occur in y_true.
balanced_accuracy_score(y_true, y_pred) ==
    LET C == confusion_matrix(y_true, y_pred)
        K == DOMAIN C
        sum1 == [i \in K |-> SumOver([j \in K |-> C[i][j]], K)]
        seen == {i \in K : sum1[i] # 0}
        total == SumFracs([i \in seen |-> Frac(C[i][i], sum1[i])], seen)
    IN  Frac(total[1], total[2] * Cardinality(seen))

\* average_precision_score with the predicted labels as scores: the area of
\* the precision-recall curve through the thresholds 1 and 0.  Without a
\* positive sample the recall is 0/0: nan, or 0.0 where the library sets the
\* recall to one (the result depends on the installed version).
average_precision_score(y_true, y_pred) ==
    LET tp == TP(y_true, y_pred)
        fp == FP(y_true, y_pred)
        fn == FN(y_true, y_pred)
        n == Len(y_true)
    IN  IF tp + fn = 0 THEN {NaN, Zero}
        ELSE IF tp = 0 THEN {Frac(fn, n)}
        ELSE {AddFrac(Frac(fn, n), Frac(tp * tp, (tp + fn) * (tp + fp)))}

-----------------------------------------------------------------------------
(* pandas and numpy writers *)

\* pd.DataFrame: named columns, the type of each column ("int64", "float64"
\* or "object") and rows (each a function of the column).
DataFrame(columns, dtypes, rows) ==
    [columns |-> columns, dtypes |-> dtypes, rows |-> rows]

\* A cell as to_csv prints it, as the tokens printed: a missing value (nan,
\* None) prints nothing.
Cell(dtype, v) ==
    CASE dtype = "float64" -> IF v = NaN THEN <<>> ELSE v
      [] dtype = "object" -> IF v = None THEN <<>> ELSE <<v>>
      [] dtype = "int64" -> <<v>>

\* df.to_csv(path, index=False): the header line, then a line per row.
to_csv(frame) ==
    <<frame.columns>> \o
    [r \in DOMAIN frame.rows |->
        [c \in DOMAIN frame.columns |->
            Cell(frame.dtypes[c], frame.rows[r][frame.columns[c]])]]

\* np.savetxt(filename, cm): one line per row, one number per column.
savetxt(cm) == [i \in DOMAIN cm |-> [j \in DOMAIN cm[i] |-> cm[i][j]]]


\* Opening a file for writing and failing before the contents are out leaves
\* it truncated.
Truncated == "truncated"

\* A write that leaves a file that exists as it is.
WriteIfAbsent(fs, path, contents) ==
    [p \in DOMAIN fs \cup {path} |-> IF p \in DOMAIN fs THEN fs[p] ELSE contents]

\* The file system fs after `contents` is written to `path`: the file is
\* created, or replaced if it exists; every other file is left as it is.
Write(fs, path, contents) ==
    [p \in DOMAIN fs \cup {path} |-> IF p = path THEN contents ELSE fs[p]]

-----------------------------------------------------------------------------
(* compute_and_save_metrics *)

MetricColumns ==
    <<"Precision", "Recall", "Fbeta Score", "Cohen Kappa",
      "Balanced Accuracy", "Average Precision">>

\* The metrics dictionaries the function can build: one per value that
\* average_precision_score can return.
metrics_of(y_true, y_pred, beta) ==
    {[c \in {MetricColumns[k] : k \in DOMAIN MetricColumns} |->
        CASE c = "Precision" -> precision_score(y_true, y_pred)
          [] c = "Recall" -> recall_score(y_true, y_pred)
          [] c = "Fbeta Score" -> fbeta_score(y_true, y_pred, beta)
          [] c = "Cohen Kappa" -> cohen_kappa_score(y_true, y_pred)
          [] c = "Balanced Accuracy" -> balanced_accuracy_score(y_true, y_pred)
          [] c = "Average Precision" -> ap]
     : ap \in average_precision_score(y_true, y_pred)}

\* The contents compute_and_save_metrics can write to save_path.
compute_and_save_metrics(y_true, y_pred, beta) ==
    {to_csv(DataFrame(MetricColumns, [c \in DOMAIN MetricColumns |-> "float64"],
                      <<metrics>>)) :
        metrics \in metrics_of(y_true, y_pred, beta)}

-----------------------------------------------------------------------------
(* save_confusion_matrix *)

\* The contents save_confusion_matrix writes to filename.
save_confusion_matrix(y_true, y_pred) == savetxt(confusion_matrix(y_true, y_pred))

-----------------------------------------------------------------------------
(* calculate_and_save_feature_importances *)

ImportanceColumns == <<"Feature", "Importance">>

IndexOrders(n) ==
    {q \in [1..n -> 1..n] : \A j, k \in 1..n : j # k => q[j] # q[k]}

\* frame.sort_values("Importance", ascending=True): the rows in increasing
\* order of Importance.
sort_values_ascending(rows) ==
    {[k \in DOMAIN rows |-> rows[q[k]]] : q \in
        {q \in IndexOrders(Len(rows)) :
            \A j, k \in DOMAIN rows :
                j < k => LeqFrac(rows[q[j]].Importance, rows[q[k]].Importance)}}

\* frame.sort_values("Importance", ascending=False): the rows in decreasing
\* order of Importance.  The default sort (quicksort) is not stable, so rows
\* of equal importance may come out in any order.
sort_values(rows) ==
    {[k \in DOMAIN rows |-> rows[q[k]]] : q \in
        {q \in IndexOrders(Len(rows)) :
            \A j, k \in DOMAIN rows :
                j < k => LeqFrac(rows[q[k]].Importance, rows[q[j]].Importance)}}

\* The contents calculate_and_save_feature_importances can write to save_path
\* for a fitted pipeline `fitted` and the training columns feature_names.
calculate_and_save_feature_importances(fitted, feature_names) ==
    LET tree == fitted.decisiontreeclassifier
        importances == tree.feature_importances_
        rows == [k \in DOMAIN feature_names |->
                    [Feature |-> feature_names[k], Importance |-> importances[k]]]
    IN  {to_csv(DataFrame(ImportanceColumns, <<"object", "float64">>, sorted)) :
            sorted \in sort_values(rows)}


-----------------------------------------------------------------------------
(* The hyperparameter search of decision_tree_experiment *)

n_trials == 100

\* trial.suggest_int and trial.suggest_float draw from the closed range
\* [low, high]; the model samples the two ends of the range.
suggest_int(low, high) == {low, high}
suggest_float(low, high) == {low, high}
suggest_categorical(choices) == choices

\* The candidates objective can draw.
SearchSpace ==
    [max_depth : suggest_int(1, 50),
     min_samples_split : suggest_float(Frac(1, 1000), One),
     min_samples_leaf : suggest_float(Frac(1, 1000), Frac(5, 10)),
     class_weight : suggest_categorical({None, "balanced"})]

\* What objective can return: the mean of the five cross-validated F-beta
\* scores, a multiple of 1/MaxScore, or nan when a fold could not be fitted.
Scores == {Frac(k, MaxScore) : k \in 0..MaxScore}
objective == Scores \cup {NaN}

\* optuna.create_study(direction="maximize")
create_study == [direction |-> "maximize", n |-> 0, values |-> {}, best |-> None]

\* A study that keeps the trial it was told last.
tell_last(st, params, value) ==
    IF value = NaN
    THEN [st EXCEPT !.n = @ + 1]
    ELSE [st EXCEPT !.n = @ + 1,
                    !.values = @ \cup {value},
                    !.best = [params |-> params, value |-> value]]

\* The study after one more trial: a trial that returned nan has failed and
\* counts only as run; a completed trial is recorded, and becomes the best
\* trial if its value is greater than the best so far.
tell(st, params, value) ==
    IF value = NaN
    THEN [st EXCEPT !.n = @ + 1]
    ELSE [st EXCEPT !.n = @ + 1,
                    !.values = @ \cup {value},
                    !.best = IF st.values = {} \/ LtFrac(st.best.value, value)
                             THEN [params |-> params, value |-> value]
                             ELSE st.best]

-----------------------------------------------------------------------------
(* The model and the paths of decision_tree_experiment *)

HyperparameterColumns ==
    <<"max_depth", "min_samples_split", "min_samples_leaf", "class_weight">>

\* make_pipeline(StandardScaler(), DecisionTreeClassifier(...)), not fitted.
make_pipeline(params) ==
    [standardscaler |-> [fitted |-> FALSE],
     decisiontreeclassifier |->
        [max_depth |-> params["max_depth"],
         min_samples_split |-> params["min_samples_split"],
         min_samples_leaf |-> params["min_samples_leaf"],
         class_weight |-> params["class_weight"],
         feature_importances_ |-> None]]

\* model.fit(X_train, y_train) with the tree ending at `importances`.
fit(m, importances) ==
    [m EXCEPT !.standardscaler.fitted = TRUE,
              !.decisiontreeclassifier.feature_importances_ = importances]

\* The importances a fitted tree can have, one per column: multiples of
\* 1/MaxImportance.
Importances(n) == [1..n -> {Frac(k, MaxImportance) : k \in 0..MaxImportance}]

\* joblib.dump(model, filename)
dump(m) == <<"joblib", m>>

\* The column names of a table with n feature columns (n <= 6).
ColumnNames == <<"x1", "x2", "x3", "x4", "x5", "x6">>
Columns(n) == SubSeq(ColumnNames, 1, n)

\* Paths are kept as their components.
hyperparameters_path(experiment_dictionary) ==
    <<"results", experiment_dictionary, "hyperparameters.csv">>
metrics_path(experiment_dictionary) ==
    <<"results", experiment_dictionary, "metrics.csv">>
feature_importances_path(experiment_dictionary) ==
    <<"results", experiment_dictionary, "feature_importances.csv">>
confusion_matrix_path(experiment_dictionary) ==
    <<"results", experiment_dictionary, "confusion_matrix.txt">>
\* A model path that leaves the experiment number out.
model_save_filepath_unnumbered(model_directory, experiment_number) ==
    <<"models", model_directory, "model", ".joblib">>

model_save_filepath(model_directory, experiment_number) ==
    <<"models", model_directory, experiment_number, ".joblib">>


\* The four calls with the third one's number copied from the second.
ExperimentsCopied ==
    <<[beta |-> 2, experiment_dictionary |-> "decision_tree_experiment1",
       model_directory |-> "decision_tree", experiment_number |-> "1"],
      [beta |-> 2, experiment_dictionary |-> "decision_tree_experiment2",
       model_directory |-> "decision_tree", experiment_number |-> "2"],
      [beta |-> 2, experiment_dictionary |-> "decision_tree_experiment3",
       model_directory |-> "decision_tree", experiment_number |-> "2"],
      [beta |-> 2, experiment_dictionary |-> "decision_tree_experiment4",
       model_directory |-> "decision_tree", experiment_number |-> "4"]>>

\* The arguments run_decision_tree gives the four calls.
Experiments ==
    <<[beta |-> 2, experiment_dictionary |-> "decision_tree_experiment1",
       model_directory |-> "decision_tree", experiment_number |-> "1"],
      [beta |-> 2, experiment_dictionary |-> "decision_tree_experiment2",
       model_directory |-> "decision_tree", experiment_number |-> "2"],
      [beta |-> 2, experiment_dictionary |-> "decision_tree_experiment3",
       model_directory |-> "decision_tree", experiment_number |-> "3"],
      [beta |-> 2, experiment_dictionary |-> "decision_tree_experiment4",
       model_directory |-> "decision_tree", experiment_number |-> "4"]>>

\* The steps of decision_tree_experiment with the model saved before the
\* metrics are computed.
StepOrderModelFirst ==
    <<"create_study", "optimize", "hyperparameters", "fit", "save_model",
      "metrics", "feature_importances", "confusion_matrix">>

\* The steps of decision_tree_experiment, in the order of its statements.
StepOrder ==
    <<"create_study", "optimize", "hyperparameters", "fit", "metrics",
      "feature_importances", "confusion_matrix", "save_model">>

\* The steps that write a file.
WritingSteps ==
    {"hyperparameters", "metrics", "feature_importances", "confusion_matrix",
     "save_model"}

\* The step after `step`; the function returns after the last one.
After(step) ==
    LET k == CHOOSE k \in DOMAIN StepOrder : StepOrder[k] = step
    IN  IF k = Len(StepOrder) THEN "returned" ELSE StepOrder[k + 1]

\* The path the writing step `step` of a call with the arguments `a` writes.
PathOfStep(step, a) ==
    CASE step = "hyperparameters" -> hyperparameters_path(a.experiment_dictionary)
      [] step = "metrics" -> metrics_path(a.experiment_dictionary)
      [] step = "feature_importances" ->
             feature_importances_path(a.experiment_dictionary)
      [] step = "confusion_matrix" -> confusion_matrix_path(a.experiment_dictionary)
      [] step = "save_model" ->
             model_save_filepath(a.model_directory, a.experiment_number)

-----------------------------------------------------------------------------
(* decision_tree_experiment, step by step (SpecExperiment)                 *)

\* The variables of run_decision_tree, unused here.
RunIdle ==
    /\ pc = "idle" /\ exp = 0 /\ run = 0 /\ nTrials = 0
    /\ df = None /\ datasets = <<>> /\ files = <<>> /\ written = <<>>
    /\ failed = {}

\* The steps of a call that has not ended.
ExperimentSteps == {StepOrder[k] : k \in DOMAIN StepOrder}

\* An exception leaves decision_tree_experiment: nothing catches it.
Raised == epc' = "raised"

\* study = optuna.create_study(direction="maximize")
CreateStudy ==
    /\ epc = "create_study"
    /\ study' = create_study
    /\ epc' = After("create_study")
    /\ UNCHANGED <<call, inp, best_params, model, pred, saved, prev>>
    /\ UNCHANGED runVars

\* One trial of study.optimize: objective draws a candidate and scores it.
Optimize ==
    /\ epc = "optimize"
    /\ study.n < n_trials
    /\ \E params \in SearchSpace, value \in objective :
           study' = tell(study, params, value)
    /\ UNCHANGED <<epc, call, inp, best_params, model, pred, saved, prev>>
    /\ UNCHANGED runVars

\* study.best_trial and study.best_params after the last trial; they raise
\* ValueError when no trial has completed.
BestParams ==
    /\ epc = "optimize"
    /\ study.n = n_trials
    /\ IF study.values = {}
       THEN Raised /\ UNCHANGED best_params
       ELSE /\ best_params' = study.best.params
            /\ epc' = After("optimize")
    /\ UNCHANGED <<call, inp, study, model, pred, saved, prev>>
    /\ UNCHANGED runVars

\* best_hyperparameters is written to results/<dir>/hyperparameters.csv.
SaveHyperparameters ==
    /\ epc = "hyperparameters"
    /\ LET best_hyperparameters ==
               [c \in {HyperparameterColumns[k] : k \in DOMAIN HyperparameterColumns}
                   |-> best_params[c]]
           hyperparameters_df ==
               DataFrame(HyperparameterColumns,
                         <<"int64", "float64", "float64", "object">>,
                         <<best_hyperparameters>>)
       IN  saved' = Write(saved, hyperparameters_path(inp.experiment_dictionary),
                          to_csv(hyperparameters_df))
    /\ epc' = After("hyperparameters")
    /\ UNCHANGED <<call, inp, study, best_params, model, pred, prev>>
    /\ UNCHANGED runVars

\* The pipeline is built from best_params, fitted on the training split and
\* asked to predict the test split.  No random_state is given, so what the
\* tree learns is not determined by its arguments.
FitPredict ==
    /\ epc = "fit"
    /\ \E importances \in Importances(Len(inp.X_train.columns)) :
           model' = fit(make_pipeline(best_params), importances)
    /\ pred' \in BinaryVectors(Len(inp.y_test))
    /\ epc' = After("fit")
    /\ UNCHANGED <<call, inp, study, best_params, saved, prev>>
    /\ UNCHANGED runVars

SaveMetrics ==
    /\ epc = "metrics"
    /\ \E contents \in compute_and_save_metrics(inp.y_test, pred, inp.beta) :
           saved' = Write(saved, metrics_path(inp.experiment_dictionary), contents)
    /\ epc' = After("metrics")
    /\ UNCHANGED <<call, inp, study, best_params, model, pred, prev>>
    /\ UNCHANGED runVars

SaveFeatureImportances ==
    /\ epc = "feature_importances"
    /\ \E contents \in calculate_and_save_feature_importances(model, inp.X_train.columns) :
           saved' = Write(saved, feature_importances_path(inp.experiment_dictionary),
                          contents)
    /\ epc' = After("feature_importances")
    /\ UNCHANGED <<call, inp, study, best_params, model, pred, prev>>
    /\ UNCHANGED runVars

SaveConfusionMatrix ==
    /\ epc = "confusion_matrix"
    /\ saved' = Write(saved, confusion_matrix_path(inp.experiment_dictionary),
                      save_confusion_matrix(inp.y_test, pred))
    /\ epc' = After("confusion_matrix")
    /\ UNCHANGED <<call, inp, study, best_params, model, pred, prev>>
    /\ UNCHANGED runVars

\* save_model(model, model_save_filepath); the function returns.
SaveModel ==
    /\ epc = "save_model"
    /\ saved' = Write(saved,
                      model_save_filepath(inp.model_directory, inp.experiment_number),
                      dump(model))
    /\ epc' = After("save_model")
    /\ UNCHANGED <<call, inp, study, best_params, model, pred, prev>>
    /\ UNCHANGED runVars


\* Any library call of the current step raises (an I/O error, a malformed
\* table, a failed fit).  A write that fails may have created its file.
ExperimentRaises ==
    /\ epc \in ExperimentSteps
    /\ Raised
    /\ \/ UNCHANGED saved
       \/ /\ epc \in WritingSteps
          /\ saved' = Write(saved, PathOfStep(epc, inp), Truncated)
    /\ UNCHANGED <<call, inp, study, best_params, model, pred, prev>>
    /\ UNCHANGED runVars

\* The arguments of a call: those of experiment 1 of run_decision_tree, a
\* training table of two columns and the labels y of the test split.
ExperimentInput(y) ==
    [X_train |-> [columns |-> Columns(2)], y_test |-> y,
     beta |-> Experiments[1].beta,
     experiment_dictionary |-> Experiments[1].experiment_dictionary,
     model_directory |-> Experiments[1].model_directory,
     experiment_number |-> Experiments[1].experiment_number]

\* A call starts on the arguments `a`, with empty result directories.
Called(a) ==
    /\ RunIdle
    /\ epc = "create_study"
    /\ call = 1
    /\ inp = a
    /\ study = None /\ best_params = None /\ model = None /\ pred = None
    /\ saved = <<>>
    /\ prev = <<>>

\* Every test split of 1..MaxTest samples.
InitExperiment ==
    \E y \in UNION {BinaryVectors(n) : n \in 1..MaxTest} : Called(ExperimentInput(y))

NextExperiment ==
    \/ CreateStudy
    \/ Optimize
    \/ BestParams
    \/ SaveHyperparameters
    \/ FitPredict
    \/ SaveMetrics
    \/ SaveFeatureImportances
    \/ SaveConfusionMatrix
    \/ SaveModel
    \/ ExperimentRaises

SpecExperiment == InitExperiment /\ [][NextExperiment]_vars

-----------------------------------------------------------------------------
(* Two runs of decision_tree_experiment on the same inputs (SpecTwice)     *)

\* The determinism check: once the first run has returned, its
\* hyperparameters.csv and metrics.csv are kept in prev and the call is made
\* again on the same arguments, from the files the first run started from.
SecondRun ==
    /\ epc = "returned"
    /\ call = 1
    /\ call' = 2
    /\ prev' = [hyperparameters |-> saved[hyperparameters_path(inp.experiment_dictionary)],
                metrics |-> saved[metrics_path(inp.experiment_dictionary)]]
    /\ saved' = <<>>
    /\ epc' = "create_study"
    /\ study' = None /\ best_params' = None /\ model' = None /\ pred' = None
    /\ UNCHANGED inp
    /\ UNCHANGED runVars

\* One fixed dataset, whose test split is the single sample <<1>>.
InitTwice == Called(ExperimentInput(<<1>>))

NextTwice == NextExperiment \/ SecondRun

SpecTwice == InitTwice /\ [][NextTwice]_vars

-----------------------------------------------------------------------------
(* compute_and_save_metrics and save_confusion_matrix called on their own  *)
(* (SpecMetrics)                                                           *)

\* The arguments: two label vectors of the same length 1..MaxLen, beta at its
\* default 1 or at the 2 run_decision_tree passes, and the two file names.
MetricsInputs ==
    {[y_true |-> t, y_pred |-> p, beta |-> b,
      save_path |-> <<"metrics.csv">>, filename |-> <<"confusion_matrix.txt">>] :
        t \in UNION {BinaryVectors(n) : n \in 1..MaxLen},
        p \in UNION {BinaryVectors(n) : n \in 1..MaxLen},
        b \in {1, 2}}

InitMetrics ==
    /\ RunIdle
    /\ epc = "called"
    /\ call = 1
    /\ inp \in {a \in MetricsInputs : Len(a.y_true) = Len(a.y_pred)}
    /\ study = None /\ best_params = None /\ model = None /\ pred = None
    /\ saved = <<>>
    /\ prev = <<>>

CallComputeAndSaveMetrics ==
    /\ epc = "called"
    /\ inp.save_path \notin DOMAIN saved
    /\ \E contents \in compute_and_save_metrics(inp.y_true, inp.y_pred, inp.beta) :
           saved' = Write(saved, inp.save_path, contents)
    /\ UNCHANGED <<epc, call, inp, study, best_params, model, pred, prev>>
    /\ UNCHANGED runVars

CallSaveConfusionMatrix ==
    /\ epc = "called"
    /\ inp.filename \notin DOMAIN saved
    /\ saved' = Write(saved, inp.filename,
                      save_confusion_matrix(inp.y_true, inp.y_pred))
    /\ UNCHANGED <<epc, call, inp, study, best_params, model, pred, prev>>
    /\ UNCHANGED runVars

NextMetrics == CallComputeAndSaveMetrics \/ CallSaveConfusionMatrix

SpecMetrics == InitMetrics /\ [][NextMetrics]_vars

-----------------------------------------------------------------------------
(* calculate_and_save_feature_importances called on its own                *)
(* (SpecImportances)                                                       *)

\* The arguments: a fitted pipeline over 1..MaxFeatures columns, the names of
\* the columns and the file name.
InitImportances ==
    /\ RunIdle
    /\ epc = "called"
    /\ call = 1
    /\ \E n \in 1..MaxFeatures :
        /\ inp = [feature_names |-> Columns(n),
                  save_path |-> <<"feature_importances.csv">>]
        /\ model \in {fit(make_pipeline(params), importances) :
                        params \in SearchSpace, importances \in Importances(n)}
    /\ study = None /\ best_params = None /\ pred = None
    /\ saved = <<>>
    /\ prev = <<>>

CallFeatureImportances ==
    /\ epc = "called"
    /\ inp.save_path \notin DOMAIN saved
    /\ \E contents \in calculate_and_save_feature_importances(model, inp.feature_names) :
           saved' = Write(saved, inp.save_path, contents)
    /\ UNCHANGED <<epc, call, inp, study, best_params, model, pred, prev>>
    /\ UNCHANGED runVars

NextImportances == CallFeatureImportances

SpecImportances == InitImportances /\ [][NextImportances]_vars

-----------------------------------------------------------------------------
(* run_decision_tree (Spec)                                                *)

\* The variables of a single call, unused here.
ExperimentIdle ==
    /\ epc = "idle" /\ call = 0 /\ inp = None /\ study = None
    /\ best_params = None /\ model = None /\ pred = None
    /\ saved = <<>> /\ prev = <<>>

\* load_data(filepath): the table read from the file.
load_data(filepath) == [filepath |-> filepath]

\* create_experiment<k>_dataset(df): the split of experiment k, made from the
\* table and leaving it as it is.
create_experiment_dataset(k, table) == [experiment |-> k, table |-> table]

\* What a file of the run `r` is kept as.
Stamp(r, complete) == [run |-> r, complete |-> complete]

\* An exception raised in experiment e is caught and the run goes on with
\* the next experiment.
PropagateCaught(e) ==
    IF e < Len(Experiments)
    THEN pc' = "create_study" /\ exp' = e + 1 /\ nTrials' = 0
    ELSE pc' = "done" /\ exp' = e /\ nTrials' = nTrials

\* An exception raised in experiment e (0: before the first) leaves
\* run_decision_tree and ends the process: nothing catches it.
Propagate(e) == pc' = "crashed" /\ exp' = e /\ nTrials' = nTrials

\* df = load_data(filepath), for the script's data/ai4i2020.csv.
Load ==
    /\ pc = "load"
    /\ df' = load_data("data/ai4i2020.csv")
    /\ pc' = "create"
    /\ UNCHANGED <<exp, run, nTrials, datasets, files, written, failed>>
    /\ UNCHANGED expVars

\* The four dataset creators, one after the other; the first experiment
\* follows the last.
Create ==
    /\ pc = "create"
    /\ datasets' = Append(datasets, create_experiment_dataset(Len(datasets) + 1, df))
    /\ IF Len(datasets') = Len(Experiments)
       THEN pc' = "create_study" /\ exp' = 1
       ELSE UNCHANGED <<pc, exp>>
    /\ UNCHANGED <<run, nTrials, df, files, written, failed>>
    /\ UNCHANGED expVars

\* The call of experiment `exp` takes a step that writes nothing.
RunCreateStudy ==
    /\ pc = "create_study"
    /\ nTrials' = 0
    /\ pc' = After(pc)
    /\ UNCHANGED <<exp, run, df, datasets, files, written, failed>>
    /\ UNCHANGED expVars

RunOptimize ==
    /\ pc = "optimize"
    /\ nTrials < n_trials
    /\ nTrials' = nTrials + 1
    /\ UNCHANGED <<pc, exp, run, df, datasets, files, written, failed>>
    /\ UNCHANGED expVars

RunBestParams ==
    /\ pc = "optimize"
    /\ nTrials = n_trials
    /\ pc' = After(pc)
    /\ UNCHANGED <<exp, run, nTrials, df, datasets, files, written, failed>>
    /\ UNCHANGED expVars

RunFitPredict ==
    /\ pc = "fit"
    /\ pc' = After(pc)
    /\ UNCHANGED <<exp, run, nTrials, df, datasets, files, written, failed>>
    /\ UNCHANGED expVars

\* The call of experiment `exp` writes the file of its step.  After its last
\* step the call returns: the next experiment starts, or the run is done.
RunWrite ==
    /\ pc \in WritingSteps
    /\ LET path == PathOfStep(pc, Experiments[exp])
       IN  /\ files' = Write(files, path, Stamp(run, TRUE))
           /\ written' = Append(written, path)
    /\ IF After(pc) # "returned"
       THEN pc' = After(pc) /\ UNCHANGED exp
       ELSE IF exp < Len(Experiments)
            THEN pc' = "create_study" /\ exp' = exp + 1
            ELSE pc' = "done" /\ UNCHANGED exp
    /\ UNCHANGED <<run, nTrials, df, datasets, failed>>
    /\ UNCHANGED expVars

\* A step raises, or the process is killed.  A write that fails may have
\* created its file.
Raise ==
    /\ pc \in {"load", "create"} \cup ExperimentSteps
    /\ failed' = failed \cup {exp}
    /\ Propagate(exp)
    /\ \/ UNCHANGED <<files, written>>
       \/ /\ pc \in WritingSteps
          /\ LET path == PathOfStep(pc, Experiments[exp])
             IN  /\ files' = Write(files, path, Stamp(run, FALSE))
                 /\ written' = Append(written, path)
    /\ UNCHANGED <<run, df, datasets>>
    /\ UNCHANGED expVars

\* The script is started again; the files of the earlier run are still there.
Rerun ==
    /\ pc \in {"done", "crashed"}
    /\ run < MaxRuns
    /\ run' = run + 1
    /\ pc' = "load"
    /\ exp' = 0 /\ nTrials' = 0 /\ df' = None /\ datasets' = <<>>
    /\ written' = <<>> /\ failed' = {}
    /\ UNCHANGED files
    /\ UNCHANGED expVars

Init ==
    /\ ExperimentIdle
    /\ pc = "load" /\ exp = 0 /\ run = 1 /\ nTrials = 0
    /\ df = None /\ datasets = <<>>
    /\ files = <<>> /\ written = <<>> /\ failed = {}

Next ==
    \/ Load
    \/ Create
    \/ RunCreateStudy
    \/ RunOptimize
    \/ RunBestParams
    \/ RunFitPredict
    \/ RunWrite
    \/ Raise
    \/ Rerun

Spec == Init /\ [][Next]_vars

-----------------------------------------------------------------------------
(* The paths and the order the properties speak of, written out            *)

Range(seq) == {seq[k] : k \in DOMAIN seq}

ResultDirectory ==
    <<"decision_tree_experiment1", "decision_tree_experiment2",
      "decision_tree_experiment3", "decision_tree_experiment4">>
ModelNumber == <<"1", "2", "3", "4">>

\* results/decision_tree_experiment<i>/{hyperparameters.csv, metrics.csv,
\* feature_importances.csv, confusion_matrix.txt}, models/decision_tree/<i>.joblib
ClaimedArtifacts(i) ==
    <<<<"results", ResultDirectory[i], "hyperparameters.csv">>,
      <<"results", ResultDirectory[i], "metrics.csv">>,
      <<"results", ResultDirectory[i], "feature_importances.csv">>,
      <<"results", ResultDirectory[i], "confusion_matrix.txt">>,
      <<"models", "decision_tree", ModelNumber[i], ".joblib">>>>

ClaimedPaths(i) == Range(ClaimedArtifacts(i))
AllClaimedPaths == UNION {ClaimedPaths(i) : i \in 1..4}
ClaimedOrder ==
    ClaimedArtifacts(1) \o ClaimedArtifacts(2) \o ClaimedArtifacts(3)
        \o ClaimedArtifacts(4)

IsPrefix(a, b) == Len(a) <= Len(b) /\ \A k \in DOMAIN a : a[k] = b[k]

-----------------------------------------------------------------------------
(* Properties of run_decision_tree (Spec)                                  *)

\* C1: when run_decision_tree completes without a step raising, each of the
\* four experiments has written exactly its five artifacts (four result files
\* and models/decision_tree/<i>.joblib), 20 files in all and no others, each
\* written whole by this run.
C1_FiveArtifactsEach ==
    pc = "done" =>
        /\ Cardinality(AllClaimedPaths) = 20
        /\ \A i \in 1..4 :
            /\ Cardinality(ClaimedPaths(i)) = 5
            /\ {p \in Range(written) : p[2] = ResultDirectory[i]
                                       \/ (p[1] = "models" /\ p[3] = ModelNumber[i])}
                   = ClaimedPaths(i)
        /\ Range(written) = AllClaimedPaths
        /\ Len(written) = 20
        /\ DOMAIN files = AllClaimedPaths
        /\ \A p \in DOMAIN files : files[p] = [run |-> run, complete |-> TRUE]

\* C1 witness: the first run is done with its 20 files.
C1_Witness == pc = "done" /\ run = 1 /\ Cardinality(DOMAIN files) = 20

\* C2: no failure is caught or retried.  Once a step of experiment e (0:
\* load_data or a dataset creator) has raised, the run has ended, every
\* artifact of every experiment before e has been written whole by this
\* run, no artifact of an experiment after e is written by this run, and
\* nothing more is written or executed until the script is started again.
C2_FailureAborts ==
    /\ [](\A e \in failed :
            /\ pc = "crashed"
            /\ \A i \in 1..4 : i < e =>
                   \A p \in ClaimedPaths(i) :
                       /\ p \in DOMAIN files
                       /\ files[p] = [run |-> run, complete |-> TRUE]
            /\ \A j \in 1..4 : j > e =>
                   ClaimedPaths(j) \cap Range(written) = {})
    /\ [][failed # {} =>
            \/ UNCHANGED <<pc, exp, nTrials, files, written, failed>>
            \/ run' = run + 1 /\ pc' = "load" /\ files' = files]_vars

\* C2 witness: the first run has failed in experiment 2, experiment 1's five
\* artifacts are there and none of experiments 3 and 4.
C2_Witness ==
    /\ pc = "crashed" /\ run = 1 /\ failed = {2}
    /\ ClaimedPaths(1) \subseteq DOMAIN files
    /\ (ClaimedPaths(3) \cup ClaimedPaths(4)) \cap DOMAIN files = {}

\* C3: a run after an earlier run writes to the same 20 fixed paths; every
\* artifact is overwritten in place, no other file is ever created and none
\* is deleted, so the paths after two runs are the paths after one.
C3_RerunOverwrites ==
    /\ [](/\ DOMAIN files \subseteq AllClaimedPaths
          /\ (pc = "done" /\ run >= 2) =>
                /\ Range(written) = AllClaimedPaths
                /\ DOMAIN files = AllClaimedPaths
                /\ \A p \in DOMAIN files : files[p].run = run /\ files[p].complete)
    /\ [][DOMAIN files \subseteq DOMAIN files']_vars

\* C3 witness: a second run is done after a first run that completed.
C3_Witness ==
    /\ pc = "done" /\ run = 2
    /\ \A p \in AllClaimedPaths : p \in DOMAIN files /\ files[p].run = 2

\* C9: in every state, also after a failure, the writes of the run are a
\* prefix of one fixed order (experiments 1 to 4, in each hyperparameters.csv,
\* metrics.csv, feature_importances.csv, confusion_matrix.txt, <n>.joblib),
\* nothing is written before the four datasets exist, and the files that
\* exist are a prefix of that order too.
C9_WritesInOrder ==
    /\ IsPrefix(written, ClaimedOrder)
    /\ (written # <<>> => Len(datasets) = 4)
    /\ \E k \in 0..Len(ClaimedOrder) : DOMAIN files = {ClaimedOrder[j] : j \in 1..k}
    /\ (run = 1 => DOMAIN files = Range(written))
    /\ \A i, j \in 1..4 :
           (i < j /\ ClaimedPaths(j) \cap DOMAIN files # {})
               => ClaimedPaths(i) \subseteq DOMAIN files
    /\ \A i \in 1..4 :
           ClaimedArtifacts(i)[5] \in DOMAIN files
               => ClaimedPaths(i) \subseteq DOMAIN files

\* C9 witness: the first run has failed inside experiment 2 after writing
\* two of its files.
C9_Witness == pc = "crashed" /\ run = 1 /\ Len(written) = 7

\* The paths the model's call of experiment i writes.
PathsOfExperiment(i) == {PathOfStep(step, Experiments[i]) : step \in WritingSteps}

\* C10: the path sets of two different experiments are disjoint, within one
\* run no path is written twice and a completed run has written 20 paths; a
\* step changes no file but one of the five of the experiment that is
\* running, and no step of an experiment changes the loaded table or the
\* datasets.
C10_WritesOnlyOwnPaths ==
    /\ [](/\ \A i, j \in 1..4 :
                i # j => PathsOfExperiment(i) \cap PathsOfExperiment(j) = {}
          /\ \A j, k \in DOMAIN written : j # k => written[j] # written[k]
          /\ (pc = "done" => Len(written) = 20))
    /\ [][/\ \A p \in DOMAIN files' :
                (p \notin DOMAIN files \/ files'[p] # files[p])
                    => pc \in WritingSteps /\ p \in ClaimedPaths(exp)
          /\ pc \in ExperimentSteps => df' = df /\ datasets' = datasets]_vars

\* C10 witness: experiment 3 of the first run has written its metrics while
\* the ten files of experiments 1 and 2 are there.
C10_Witness ==
    /\ run = 1 /\ exp = 3 /\ pc = "feature_importances"
    /\ Len(written) = 12

-----------------------------------------------------------------------------
(* Properties of the files one call writes                                 *)

\* The cell of the data row of a written table (header line, one data line)
\* under the column `column`.
CsvValue(file, column) ==
    file[2][CHOOSE c \in DOMAIN file[1] : file[1][c] = column]

HasPositive(y) == \E k \in DOMAIN y : y[k] = 1

\* A written matrix is diagonal: every entry off the diagonal is 0.
IsDiagonal(matrix) ==
    \A i \in DOMAIN matrix : \A j \in DOMAIN matrix[i] : i # j => matrix[i][j] = 0

\* C4 as claimed: two runs of decision_tree_experiment on the same dataset
\* end with equal hyperparameters.csv and equal metrics.csv.
C4_SameInputsSameOutputs ==
    (call = 2 /\ epc = "returned") =>
        /\ saved[hyperparameters_path(inp.experiment_dictionary)] = prev.hyperparameters
        /\ saved[metrics_path(inp.experiment_dictionary)] = prev.metrics

\* C5 as claimed: for every y_true, compute_and_save_metrics with y_pred equal
\* to y_true records Precision = Recall = Fbeta Score = 1.0, and the confusion
\* matrix is diagonal.
C5_PerfectPredictionAlwaysOne ==
    inp.y_pred = inp.y_true =>
        /\ inp.save_path \in DOMAIN saved =>
              /\ CsvValue(saved[inp.save_path], "Precision") = <<1, 1>>
              /\ CsvValue(saved[inp.save_path], "Recall") = <<1, 1>>
              /\ CsvValue(saved[inp.save_path], "Fbeta Score") = <<1, 1>>
        /\ inp.filename \in DOMAIN saved => IsDiagonal(saved[inp.filename])

\* C5, amended: for every y_true (of 1..MaxLen labels) that holds a positive
\* label, compute_and_save_metrics with y_pred equal to y_true records
\* Precision = Recall = Fbeta Score = 1.0; for a y_true without a positive
\* label it records 0.0 for the three.  The confusion matrix of a perfect
\* prediction is diagonal in both cases.
C5_PerfectPrediction ==
    inp.y_pred = inp.y_true =>
        /\ inp.save_path \in DOMAIN saved =>
              LET expected == IF HasPositive(inp.y_true) THEN <<1, 1>> ELSE <<0, 1>>
              IN  /\ CsvValue(saved[inp.save_path], "Precision") = expected
                  /\ CsvValue(saved[inp.save_path], "Recall") = expected
                  /\ CsvValue(saved[inp.save_path], "Fbeta Score") = expected
        /\ inp.filename \in DOMAIN saved => IsDiagonal(saved[inp.filename])

\* C5 witness: both files are written for a perfect prediction of three
\* labels, positive and negative.
C5_Witness ==
    /\ inp.y_pred = inp.y_true
    /\ Len(inp.y_true) = 3 /\ HasPositive(inp.y_true) /\ \E k \in 1..3 : inp.y_true[k] = 0
    /\ inp.save_path \in DOMAIN saved /\ inp.filename \in DOMAIN saved

\* The sum of the entries of a written matrix.
MatrixSum(matrix) ==
    SumOver([i \in DOMAIN matrix |->
                SumOver([j \in DOMAIN matrix[i] |-> matrix[i][j]], DOMAIN matrix[i])],
            DOMAIN matrix)

\* C6 as claimed: for every pair of binary label vectors of length n, the
\* matrix save_confusion_matrix writes has two rows of two entries, and its
\* entries sum to n.
C6_TwoByTwoSumsToN ==
    inp.filename \in DOMAIN saved =>
        /\ Len(saved[inp.filename]) = 2
        /\ \A i \in DOMAIN saved[inp.filename] : Len(saved[inp.filename][i]) = 2
        /\ MatrixSum(saved[inp.filename]) = Len(inp.y_true)

-----------------------------------------------------------------------------
(* Properties of calculate_and_save_feature_importances (SpecImportances)  *)

\* C7: the table written is sorted in non-increasing order of Importance and
\* is a permutation of the input: one row per feature name, each row with the
\* importance the tree gave that feature, and no other row.
C7_SortedPermutation ==
    inp.save_path \in DOMAIN saved =>
        LET file == saved[inp.save_path]
            rows == Tail(file)
            names == inp.feature_names
            importances == model.decisiontreeclassifier.feature_importances_
        IN  /\ file[1] = <<"Feature", "Importance">>
            /\ Len(rows) = Len(names)
            /\ \A k \in DOMAIN rows : k > 1 =>
                   rows[k][2][1] * rows[k - 1][2][2] <= rows[k - 1][2][1] * rows[k][2][2]
            /\ \A k \in DOMAIN names :
                   /\ Cardinality({r \in DOMAIN rows : rows[r][1] = <<names[k]>>}) = 1
                   /\ \E r \in DOMAIN rows :
                          rows[r] = <<<<names[k]>>, importances[k]>>

\* C7 witness: a table of three features is written whose importances came
\* in increasing order.
C7_Witness ==
    /\ inp.save_path \in DOMAIN saved
    /\ Len(inp.feature_names) = 3
    /\ LET importances == model.decisiontreeclassifier.feature_importances_
       IN  LtFrac(importances[1], importances[2]) /\ LtFrac(importances[2], importances[3])

-----------------------------------------------------------------------------
(* Properties of the search of decision_tree_experiment (SpecExperiment)   *)

\* The steps after the search, and those after the fit.
PastSearch == (ExperimentSteps \ {"create_study", "optimize"}) \cup {"returned"}
PastFit == PastSearch \ {"hyperparameters", "fit"}

\* C8: the search runs exactly 100 trials and keeps the best-scoring one: the
\* hyperparameters chosen have a score greater than or equal to the score of
\* every trial that completed, each lies in its search range (max_depth in
\* 1..50, min_samples_split in [0.001, 1], min_samples_leaf in [0.001, 0.5],
\* class_weight None or balanced), and the values written to
\* hyperparameters.csv are those the final, fitted model is built with.
C8_BestOfHundredTrials ==
    /\ epc \in {"optimize"} \cup PastSearch => study.n <= 100
    /\ epc \in PastSearch =>
        /\ study.n = 100
        /\ \A v \in study.values :
               v[1] * study.best.value[2] <= study.best.value[1] * v[2]
        /\ best_params = study.best.params
        /\ best_params.max_depth \in 1..50
        /\ 1 * best_params.min_samples_split[2] <= best_params.min_samples_split[1] * 1000
        /\ best_params.min_samples_split[1] <= best_params.min_samples_split[2]
        /\ 1 * best_params.min_samples_leaf[2] <= best_params.min_samples_leaf[1] * 1000
        /\ best_params.min_samples_leaf[1] * 2 <= best_params.min_samples_leaf[2]
        /\ best_params.class_weight \in {None, "balanced"}
    /\ epc \in PastFit =>
        LET tree == model.decisiontreeclassifier
            file == saved[<<"results", inp.experiment_dictionary, "hyperparameters.csv">>]
        IN  /\ model.standardscaler.fitted
            /\ tree.max_depth = best_params.max_depth
            /\ tree.min_samples_split = best_params.min_samples_split
            /\ tree.min_samples_leaf = best_params.min_samples_leaf
            /\ tree.class_weight = best_params.class_weight
            /\ file[1] = <<"max_depth", "min_samples_split", "min_samples_leaf",
                           "class_weight">>
            /\ file[2] = <<<<tree.max_depth>>, tree.min_samples_split,
                           tree.min_samples_leaf,
                           IF tree.class_weight = "balanced" THEN <<"balanced">> ELSE <<>>>>

\* C8 witness: the call has returned after a search in which trials of
\* different scores completed.
C8_Witness ==
    /\ epc = "returned"
    /\ Cardinality(study.values) >= 2
    /\ study.n = 100

=============================================================================
